---- MODULE Spec2Model ----
(***************************************************************************)
(* N-body simulator (src/main.cpp): the driver main() and the Integrator   *)
(* next().  A `double` is modelled as a binary floating-point number with  *)
(* a MantBits-bit significand, round-to-nearest-even, and an unbounded     *)
(* exponent; +-Inf and NaN are kept as special values.  Every operation is *)
(* rounded on its own, in the order the C expressions evaluate.            *)
(*                                                                         *)
(* The generator's xorshift sequence is not modelled: main's bodies are    *)
(* drawn from a few values inside the ranges the generator produces.  The  *)
(* elapsed time in the final line is not modelled.  nplanets >= 1 and      *)
(* timesteps >= 0 (the spec leaves other values undefined), and malloc is  *)
(* taken to succeed.                                                       *)
(***************************************************************************)
EXTENDS Integers, Sequences, FiniteSets, TLC

\* ------------------------------------------------------------------ bounds
MantBits == 13      \* significand width of the modelled double
MaxN == 3           \* largest nplanets given on the command line
MaxT == 2           \* largest timesteps given on the command line

\* --------------------------------------------------- floating-point numbers
Abs(a) == IF a < 0 THEN -a ELSE a
Sgn(a) == IF a < 0 THEN -1 ELSE IF a > 0 THEN 1 ELSE 0

\* number of binary digits of a >= 0
RECURSIVE BitLen(_)
BitLen(a) ==
  IF a >= 256 THEN 8 + BitLen(a \div 256)
  ELSE IF a >= 16 THEN (IF a >= 64 THEN (IF a >= 128 THEN 8 ELSE 7)
                        ELSE (IF a >= 32 THEN 6 ELSE 5))
  ELSE IF a >= 4 THEN (IF a >= 8 THEN 4 ELSE 3)
  ELSE IF a >= 2 THEN 2
  ELSE a

Fin(m, e) == [k |-> "fin", m |-> m, e |-> e]
Inf(s) == [k |-> "inf", m |-> s, e |-> 0]
NaN == [k |-> "nan", m |-> 0, e |-> 0]
Indet == [k |-> "indet", m |-> 0, e |-> 0]
Zero == Fin(0, 0)

IsFin(a) == a.k = "fin"
\* NaN, and the indeterminate value of a freshly malloc'ed double, poison
\* every operation they enter.
IsNaN(a) == a.k \notin {"fin", "inf"}

\* m * 2^e rounded to MantBits significant bits, ties to even.
Round(m, e) ==
  LET a == Abs(m)
      len == BitLen(a)
  IN IF a = 0 THEN Zero
     ELSE IF len <= MantBits
          THEN Fin(m * 2^(MantBits - len), e - (MantBits - len))
          ELSE LET sh == len - MantBits
                   q == a \div 2^sh
                   r == a % 2^sh
                   half == 2^(sh - 1)
                   q2 == IF r > half \/ (r = half /\ q % 2 = 1) THEN q + 1 ELSE q
               IN IF q2 = 2^MantBits
                  THEN Fin(Sgn(m) * 2^(MantBits - 1), e + sh + 1)
                  ELSE Fin(Sgn(m) * q2, e + sh)

FInt(n) == Round(n, 0)

FNeg(a) == IF IsNaN(a) THEN NaN ELSE [a EXCEPT !.m = -a.m]

FMul(a, b) ==
  IF IsNaN(a) \/ IsNaN(b) THEN NaN
  ELSE IF IsFin(a) /\ IsFin(b) THEN Round(a.m * b.m, a.e + b.e)
  ELSE IF a.m = 0 \/ b.m = 0 THEN NaN
  ELSE Inf(Sgn(a.m) * Sgn(b.m))

FAdd(a, b) ==
  IF IsNaN(a) \/ IsNaN(b) THEN NaN
  ELSE IF IsFin(a) /\ IsFin(b)
       THEN IF a.m = 0 THEN b
            ELSE IF b.m = 0 THEN a
            ELSE LET hi == IF a.e >= b.e THEN a ELSE b
                     lo == IF a.e >= b.e THEN b ELSE a
                     d == hi.e - lo.e
                 IN IF d > MantBits + 2 THEN hi
                    ELSE Round(hi.m * 2^d + lo.m, lo.e)
  ELSE IF IsFin(a) THEN b
  ELSE IF IsFin(b) THEN a
  ELSE IF a.m = b.m THEN a ELSE NaN

FSub(a, b) == FAdd(a, FNeg(b))

FDiv(a, b) ==
  IF IsNaN(a) \/ IsNaN(b) THEN NaN
  ELSE IF IsFin(a) /\ IsFin(b)
       THEN IF b.m = 0
            THEN IF a.m = 0 THEN NaN ELSE Inf(Sgn(a.m))
            ELSE IF a.m = 0 THEN Zero
            ELSE LET num == Abs(a.m) * 2^(MantBits + 2)
                     q == num \div Abs(b.m)
                     sticky == IF num % Abs(b.m) = 0 THEN 0 ELSE 1
                 IN Round(Sgn(a.m) * Sgn(b.m) * (2 * q + sticky),
                          a.e - b.e - (MantBits + 2) - 1)
  ELSE IF IsFin(a) THEN Zero
  ELSE IF IsFin(b) THEN Inf(a.m * (IF b.m < 0 THEN -1 ELSE 1))
  ELSE NaN

\* Largest r with r*r <= n, by Newton's iteration from x >= sqrt(n).
RECURSIVE SqrtFrom(_, _)
SqrtFrom(n, x) ==
  LET y == (x + n \div x) \div 2
  IN IF y >= x THEN x ELSE SqrtFrom(n, y)

FSqrt(a) ==
  IF IsNaN(a) THEN NaN
  ELSE IF ~IsFin(a) THEN (IF a.m > 0 THEN a ELSE NaN)
  ELSE IF a.m < 0 THEN NaN
  ELSE IF a.m = 0 THEN Zero
  ELSE LET sh == IF (a.e - (MantBits + 1)) % 2 = 0 THEN MantBits + 1
                 ELSE MantBits + 2
           n == a.m * 2^sh
           r == SqrtFrom(n, 2^(MantBits + 1))
           sticky == IF r * r = n THEN 0 ELSE 1
       IN Round(2 * r + sticky, ((a.e - sh) \div 2) - 1)

\* Comparisons (false on NaN, as in C).
FSign(a) == Sgn(a.m)
FLt(a, b) == ~IsNaN(a) /\ ~IsNaN(b) /\ a # b /\ FSign(FSub(a, b)) < 0
FLe(a, b) == ~IsNaN(a) /\ ~IsNaN(b) /\ (a = b \/ FLt(a, b))
FPos(a) == ~IsNaN(a) /\ a.m > 0

\* printf's %f: the value in decimal with six digits after the point, given
\* as the number of millionths (ties to even); 10^6 = 15625 * 2^6.
Fmt6(a) ==
  IF ~IsFin(a) THEN <<a.k, a.m>>
  ELSE LET v == Abs(a.m) * 15625
           e == a.e + 6
           sh == -e
       IN IF e >= 0 THEN <<"num", a.m * 15625 * 2^e>>
          ELSE IF sh > 30 THEN <<"num", 0>>
          ELSE LET q == v \div 2^sh
                   r == v % 2^sh
                   half == 2^(sh - 1)
                   q2 == IF r > half \/ (r = half /\ q % 2 = 1) THEN q + 1 ELSE q
               IN <<"num", Sgn(a.m) * q2>>

\* ------------------------------------------------------------ the program
Dt == FDiv(FInt(1), FInt(1000))          \* dt = 0.001
Eps == FDiv(FInt(1), FInt(10000))        \* the literal 0.0001 in distSqr

Planet(mass, x, y, vx, vy) ==
  [mass |-> mass, x |-> x, y |-> y, vx |-> vx, vy |-> vy]

FRat(n, d) == FDiv(FInt(n), FInt(d))

\* Bodies the generator can produce: mass in [0.2, 10.2), x and y in
\* [-50 s, 50 s) with s = (1 + nplanets)^0.4 >= 1, vx and vy in [-2.5, 2.5).
BodyChoices ==
  { Planet(FInt(1), FInt(-1), Zero, Zero, Zero),
    Planet(FInt(1), FInt(1), Zero, Zero, Zero),
    Planet(FInt(3), Zero, FRat(1, 2), FRat(1, 4), FRat(-3, 2)) }


VARIABLES
  pc,         \* where the program is
  argc,       \* main's argc (the program name counts)
  argv,       \* the integers the argument strings denote, argv[1..argc-1]
  argvRead,   \* indices of argv that main has passed to atoi
  nplanets, timesteps,   \* the globals set by main
  mem,        \* the heap: the blocks malloc has returned so far, each with
              \* its status and the Planets stored in it; a pointer is a
              \* block's index in mem, 0 the null pointer
  planets,    \* main's pointer to the current state
  step,       \* main's loop counter i
  arg,        \* next()'s parameter planets
  nextplanets,  \* next()'s nextplanets
  i, j,       \* next()'s loop counters
  loc,        \* next()'s locals of the last pair evaluated
  out,        \* what has been printed
  exitCode,   \* the process's exit status (-1 while running)
  calls,      \* number of calls of next() so far
  init0,      \* the state main generated
  snap,       \* the contents of next()'s input when it was called
  badAccess   \* some access went to memory that was not live

vars == <<pc, argc, argv, argvRead, nplanets, timesteps, mem, planets, step,
          arg, nextplanets, i, j, loc, out, exitCode, calls, init0, snap, badAccess>>

Live(a) == a \in 1..Len(mem) /\ mem[a].st = "live"

\* malloc(sizeof(Planet) * n): a new block of n Planets of indeterminate
\* value (the allocation is taken to succeed).
Malloc(n) ==
  Append(mem, [st |-> "live",
               data |-> [k \in 1..n |-> Planet(Indet, Indet, Indet, Indet, Indet)]])
NoLoc == [i |-> -1, j |-> -1, dx |-> Zero, dy |-> Zero, distSqr |-> Zero,
          invDist |-> Zero, invDist3 |-> Zero]

Init ==
  /\ pc = "start"
  /\ argc \in 1..3
  /\ argv \in IF argc = 1 THEN {<<>>}
              ELSE IF argc = 2 THEN {<<n>> : n \in 1..MaxN}
              ELSE {<<n, t>> : n \in 1..MaxN, t \in 0..MaxT}
  /\ argvRead = {}
  /\ nplanets = 0
  /\ timesteps = 0
  /\ mem = <<>>
  /\ planets = 0
  /\ step = 0
  /\ arg = 0
  /\ nextplanets = 0
  /\ i = 0
  /\ j = 0
  /\ loc = NoLoc
  /\ out = <<>>
  /\ exitCode = -1
  /\ calls = 0
  /\ init0 = <<>>
  /\ snap = <<>>
  /\ badAccess = FALSE

\* ---- next(): the per-pair and per-body computations as functions of the
\* input array src and the output array dst (C index k is element k + 1).

\* faulty variant: no softening term
DistSqrNoSoftening(dx, dy) == FAdd(FMul(dx, dx), FMul(dy, dy))

DistSqr(dx, dy) == FAdd(FAdd(FMul(dx, dx), FMul(dy, dy)), Eps)

\* faulty variant: dx and dy taken from body b to body a
PairLocalsRepel(src, a, b) ==
  LET dx == FSub(src[a + 1].x, src[b + 1].x)
      dy == FSub(src[a + 1].y, src[b + 1].y)
      distSqr == DistSqr(dx, dy)
      invDist == FDiv(FMul(src[a + 1].mass, src[b + 1].mass), FSqrt(distSqr))
      invDist3 == FMul(FMul(invDist, invDist), invDist)
  IN [i |-> a, j |-> b, dx |-> dx, dy |-> dy, distSqr |-> distSqr,
      invDist |-> invDist, invDist3 |-> invDist3]

\* faulty variant: the coefficient built from body a's mass alone
PairLocalsOwnMass(src, a, b) ==
  LET dx == FSub(src[b + 1].x, src[a + 1].x)
      dy == FSub(src[b + 1].y, src[a + 1].y)
      distSqr == DistSqr(dx, dy)
      invDist == FDiv(FMul(src[a + 1].mass, src[a + 1].mass), FSqrt(distSqr))
      invDist3 == FMul(FMul(invDist, invDist), invDist)
  IN [i |-> a, j |-> b, dx |-> dx, dy |-> dy, distSqr |-> distSqr,
      invDist |-> invDist, invDist3 |-> invDist3]

PairLocals(src, a, b) ==
  LET dx == FSub(src[b + 1].x, src[a + 1].x)
      dy == FSub(src[b + 1].y, src[a + 1].y)
      distSqr == DistSqr(dx, dy)
      invDist == FDiv(FMul(src[a + 1].mass, src[b + 1].mass), FSqrt(distSqr))
      invDist3 == FMul(FMul(invDist, invDist), invDist)
  IN [i |-> a, j |-> b, dx |-> dx, dy |-> dy, distSqr |-> distSqr,
      invDist |-> invDist, invDist3 |-> invDist3]

\* faulty variant: the copy loop forgets the mass
CopyAllNoMass(src) ==
  [k \in 1..Len(src) |->
     [vx |-> src[k].vx, vy |-> src[k].vy, mass |-> Indet,
      x |-> src[k].x, y |-> src[k].y]]

\* lines 44-50
CopyAll(src) ==
  [k \in 1..Len(src) |->
     [vx |-> src[k].vx, vy |-> src[k].vy, mass |-> src[k].mass,
      x |-> src[k].x, y |-> src[k].y]]

\* faulty variant: the pair is read from the array being written
ForceStepInPlace(src, dst, a, b) ==
  LET l == PairLocals(dst, a, b)
  IN [dst EXCEPT ![a + 1].vx = FAdd(@, FMul(FMul(Dt, l.dx), l.invDist3)),
                 ![a + 1].vy = FAdd(@, FMul(FMul(Dt, l.dy), l.invDist3))]

\* lines 54-60: one iteration of the inner loop
ForceStep(src, dst, a, b) ==
  LET l == PairLocals(src, a, b)
  IN [dst EXCEPT ![a + 1].vx = FAdd(@, FMul(FMul(Dt, l.dx), l.invDist3)),
                 ![a + 1].vy = FAdd(@, FMul(FMul(Dt, l.dy), l.invDist3))]

\* lines 62-63
MoveStep(dst, a) ==
  [dst EXCEPT ![a + 1].x = FAdd(@, FMul(Dt, dst[a + 1].vx)),
              ![a + 1].y = FAdd(@, FMul(Dt, dst[a + 1].vy))]


\* ---- main()

\* lines 70-73: argc < 2
MainUsage ==
  /\ pc = "start"
  /\ argc < 2
  /\ out' = Append(out, [kind |-> "usage", x |-> <<"num", 0>>, y |-> <<"num", 0>>])
  /\ exitCode' = 1
  /\ pc' = "exit"
  /\ UNCHANGED <<argc, argv, argvRead, nplanets, timesteps, mem, planets, step,
                 arg, nextplanets, i, j, loc, calls, init0, snap, badAccess>>

\* lines 74-77: atoi(argv[1]), atoi(argv[2]).  With argc = 2, argv[2] is the
\* null pointer that ends argv and atoi(NULL) is undefined: the process
\* dies on the access, or goes on with some value.
MainParse ==
  /\ pc = "start"
  /\ ~(argc < 2)
  /\ argvRead' = {1, 2}
  /\ nplanets' = argv[1]
  /\ \/ /\ argc > 2
        /\ timesteps' = argv[2]
        /\ pc' = "init"
        /\ exitCode' = exitCode
     \/ /\ argc = 2
        /\ \E t \in 0..MaxT : timesteps' = t
        /\ pc' = "init"
        /\ exitCode' = exitCode
     \/ /\ argc = 2
        /\ timesteps' = timesteps
        /\ pc' = "exit"
        /\ exitCode' = 139
  /\ UNCHANGED <<argc, argv, mem, planets, step, arg, nextplanets, i, j, loc, out,
                 calls, init0, snap, badAccess>>

\* lines 79-86: allocate the state and generate the bodies
MainInit ==
  /\ pc = "init"
  /\ \E bodies \in [1..nplanets -> BodyChoices] :
        /\ mem' = [Malloc(nplanets) EXCEPT ![Len(mem) + 1].data = bodies]
        /\ init0' = bodies
  /\ planets' = Len(mem) + 1
  /\ step' = 0
  /\ pc' = "loop"
  /\ UNCHANGED <<argc, argv, argvRead, nplanets, timesteps, arg, nextplanets, i, j,
                 loc, out, exitCode, calls, snap, badAccess>>

\* faulty variant: the loop test is i <= timesteps
MainCallOffByOne ==
  /\ pc = "loop"
  /\ step <= timesteps
  /\ arg' = planets
  /\ snap' = mem[planets].data
  /\ calls' = calls + 1
  /\ pc' = "malloc"
  /\ UNCHANGED <<argc, argv, argvRead, nplanets, timesteps, mem, planets, step,
                 nextplanets, i, j, loc, out, exitCode, init0, badAccess>>

\* lines 90-91: the loop test holds, next(planets) is called
MainCall ==
  /\ pc = "loop"
  /\ step < timesteps
  /\ arg' = planets
  /\ snap' = mem[planets].data
  /\ calls' = calls + 1
  /\ pc' = "malloc"
  /\ UNCHANGED <<argc, argv, argvRead, nplanets, timesteps, mem, planets, step,
                 nextplanets, i, j, loc, out, exitCode, init0, badAccess>>

\* lines 90, 94-97: the loop test fails, the final line is printed
MainPrint ==
  /\ pc = "loop"
  /\ ~(step < timesteps)
  /\ out' = Append(out, [kind |-> "final",
                         x |-> Fmt6(mem[planets].data[(nplanets - 1) + 1].x),
                         y |-> Fmt6(mem[planets].data[(nplanets - 1) + 1].y)])
  /\ badAccess' = (badAccess \/ ~Live(planets))
  /\ exitCode' = 0
  /\ pc' = "exit"
  /\ UNCHANGED <<argc, argv, argvRead, nplanets, timesteps, mem, planets, step,
                 arg, nextplanets, i, j, loc, calls, init0, snap>>

\* ---- next()

\* line 43
NextMalloc ==
  /\ pc = "malloc"
  /\ mem' = Malloc(nplanets)
  /\ nextplanets' = Len(mem) + 1
  /\ pc' = "copy"
  /\ UNCHANGED <<argc, argv, argvRead, nplanets, timesteps, planets, step, arg,
                 i, j, loc, out, exitCode, calls, init0, snap, badAccess>>

\* lines 44-50
NextCopy ==
  /\ pc = "copy"
  /\ mem' = [mem EXCEPT ![nextplanets].data = CopyAll(mem[arg].data)]
  /\ badAccess' = (badAccess \/ ~Live(arg) \/ ~Live(nextplanets))
  /\ i' = 0
  /\ j' = 0
  /\ pc' = IF 0 < nplanets THEN "force" ELSE "free"
  /\ UNCHANGED <<argc, argv, argvRead, nplanets, timesteps, planets, step, arg,
                 nextplanets, loc, out, exitCode, calls, init0, snap>>

\* lines 53-61: one iteration of the inner loop
NextForce ==
  /\ pc = "force"
  /\ j < nplanets
  /\ loc' = PairLocals(mem[arg].data, i, j)
  /\ mem' = [mem EXCEPT ![nextplanets].data = ForceStep(mem[arg].data, mem[nextplanets].data, i, j)]
  /\ badAccess' = (badAccess \/ ~Live(arg) \/ ~Live(nextplanets))
  /\ j' = j + 1
  /\ UNCHANGED <<pc, argc, argv, argvRead, nplanets, timesteps, planets, step,
                 arg, nextplanets, i, out, exitCode, calls, init0, snap>>

\* faulty variant: the position is advanced in the input array as well
NextMoveInPlace ==
  /\ pc = "force"
  /\ ~(j < nplanets)
  /\ mem' = [mem EXCEPT ![nextplanets].data = MoveStep(mem[nextplanets].data, i),
                        ![arg].data[i + 1].x = MoveStep(mem[nextplanets].data, i)[i + 1].x,
                        ![arg].data[i + 1].y = MoveStep(mem[nextplanets].data, i)[i + 1].y]
  /\ badAccess' = (badAccess \/ ~Live(nextplanets))
  /\ i' = i + 1
  /\ j' = 0
  /\ pc' = IF i + 1 < nplanets THEN "force" ELSE "free"
  /\ UNCHANGED <<argc, argv, argvRead, nplanets, timesteps, planets, step, arg,
                 nextplanets, loc, out, exitCode, calls, init0, snap>>

\* faulty variant: explicit Euler: the position advances by the old velocity
NextMoveOldVelocity ==
  /\ pc = "force"
  /\ ~(j < nplanets)
  /\ mem' = [mem EXCEPT
               ![nextplanets].data[i + 1].x = FAdd(@, FMul(Dt, mem[arg].data[i + 1].vx)),
               ![nextplanets].data[i + 1].y = FAdd(@, FMul(Dt, mem[arg].data[i + 1].vy))]
  /\ badAccess' = (badAccess \/ ~Live(nextplanets))
  /\ i' = i + 1
  /\ j' = 0
  /\ pc' = IF i + 1 < nplanets THEN "force" ELSE "free"
  /\ UNCHANGED <<argc, argv, argvRead, nplanets, timesteps, planets, step, arg,
                 nextplanets, loc, out, exitCode, calls, init0, snap>>

\* lines 52, 62-64: the inner loop is over, body i moves
NextMove ==
  /\ pc = "force"
  /\ ~(j < nplanets)
  /\ mem' = [mem EXCEPT ![nextplanets].data = MoveStep(mem[nextplanets].data, i)]
  /\ badAccess' = (badAccess \/ ~Live(nextplanets))
  /\ i' = i + 1
  /\ j' = 0
  /\ pc' = IF i + 1 < nplanets THEN "force" ELSE "free"
  /\ UNCHANGED <<argc, argv, argvRead, nplanets, timesteps, planets, step, arg,
                 nextplanets, loc, out, exitCode, calls, init0, snap>>

\* faulty variant: the input array is never freed
NextFreeLeak ==
  /\ pc = "free"
  /\ pc' = "return"
  /\ UNCHANGED <<argc, argv, argvRead, nplanets, timesteps, mem, planets, step,
                 arg, nextplanets, i, j, loc, out, exitCode, calls, init0, snap, badAccess>>

\* line 65
NextFree ==
  /\ pc = "free"
  /\ mem' = [mem EXCEPT ![arg].st = "freed"]
  /\ badAccess' = (badAccess \/ ~Live(arg))
  /\ pc' = "return"
  /\ UNCHANGED <<argc, argv, argvRead, nplanets, timesteps, planets, step, arg,
                 nextplanets, i, j, loc, out, exitCode, calls, init0, snap>>

\* lines 66 and 90-91: return nextplanets; planets = <the result>; i++
NextReturn ==
  /\ pc = "return"
  /\ planets' = nextplanets
  /\ step' = step + 1
  /\ pc' = "loop"
  /\ UNCHANGED <<argc, argv, argvRead, nplanets, timesteps, mem, arg, nextplanets, i, j,
                 loc, out, exitCode, calls, init0, snap, badAccess>>

Next ==
  \/ MainUsage
  \/ MainParse
  \/ MainInit
  \/ MainCall
  \/ MainPrint
  \/ NextMalloc
  \/ NextCopy
  \/ NextForce
  \/ NextMove
  \/ NextFree
  \/ NextReturn

Spec == Init /\ [][Next]_vars

\* ---- next() as a function of its input

\* lines 53-61 for body a: the inner loop from j = b up to the end
RECURSIVE ForceFrom(_, _, _, _)
ForceFrom(src, dst, a, b) ==
  IF b >= Len(src) THEN dst
  ELSE ForceFrom(src, ForceStep(src, dst, a, b), a, b + 1)

\* lines 53-63 for body a
BodyStep(src, dst, a) == MoveStep(ForceFrom(src, dst, a, 0), a)

\* The outer loop run over the bodies in the order given.
RECURSIVE BodiesInOrder(_, _, _)
BodiesInOrder(src, dst, order) ==
  IF order = <<>> THEN dst
  ELSE BodiesInOrder(src, BodyStep(src, dst, Head(order)), Tail(order))

\* lines 43-64: the array next() returns for the input src
NextState(src) ==
  BodiesInOrder(src, CopyAll(src), [k \in 1..Len(src) |-> k - 1])

\* the state after t timesteps
RECURSIVE StateAfter(_, _)
StateAfter(s, t) == IF t = 0 THEN s ELSE NextState(StateAfter(s, t - 1))

Perms(n) ==
  {p \in [1..n -> 0..(n - 1)] : \A a, b \in 1..n : p[a] = p[b] => a = b}

\* ---- the symmetric-force variant of the step (branch opt1): every
\* unordered pair {a, b}, a < b, is evaluated once, for (a, b), and its
\* velocity update is added to body a and subtracted from body b.
PairSym(src, dst, a, b) ==
  LET l == PairLocals(src, a, b)
      fx == FMul(FMul(Dt, l.dx), l.invDist3)
      fy == FMul(FMul(Dt, l.dy), l.invDist3)
  IN [dst EXCEPT ![a + 1].vx = FAdd(@, fx), ![a + 1].vy = FAdd(@, fy),
                 ![b + 1].vx = FSub(@, fx), ![b + 1].vy = FSub(@, fy)]

RECURSIVE PairsInOrder(_, _, _)
PairsInOrder(src, dst, pairs) ==
  IF pairs = <<>> THEN dst
  ELSE PairsInOrder(src, PairSym(src, dst, Head(pairs)[1], Head(pairs)[2]),
                    Tail(pairs))

RECURSIVE MoveFrom(_, _)
MoveFrom(dst, a) ==
  IF a >= Len(dst) THEN dst ELSE MoveFrom(MoveStep(dst, a), a + 1)

SymState(src, pairs) == MoveFrom(PairsInOrder(src, CopyAll(src), pairs), 0)

\* the pairs (a, b), a < b < n, in the order of the loops
\* for a = 0..n-1, for b = a+1..n-1
RECURSIVE PairsFrom(_, _, _)
PairsFrom(n, a, b) ==
  IF a >= n - 1 THEN <<>>
  ELSE IF b >= n THEN PairsFrom(n, a + 1, a + 2)
  ELSE <<<<a, b>>>> \o PairsFrom(n, a, b + 1)

LoopPairs(n) == PairsFrom(n, 0, 1)

PairOrders(n) ==
  LET ps == LoopPairs(n)
      m == Len(ps)
  IN {[k \in 1..m |-> ps[q[k]]] :
        q \in {f \in [1..m -> 1..m] : \A x, y \in 1..m : f[x] = f[y] => x = y}}

InCall == pc \in {"malloc", "copy", "force", "free", "return"}
LiveBlocks == {b \in 1..Len(mem) : mem[b].st = "live"}
FinalLine(s) ==
  [kind |-> "final", x |-> Fmt6(s[nplanets].x), y |-> Fmt6(s[nplanets].y)]
UsageLine == [kind |-> "usage", x |-> <<"num", 0>>, y |-> <<"num", 0>>]

\* ------------------------------------------------------------------ claims

\* C1: with zero or one command-line argument (argc <= 2) the program prints
\* the usage message and exits non-zero, without passing any argv[k] to atoi,
\* generating bodies or running a timestep.
C1_UsageOnMissingArgs ==
  argc <= 2 =>
    /\ argvRead = {}
    /\ init0 = <<>>
    /\ calls = 0
    /\ pc # "start" => (pc = "exit" /\ out = <<UsageLine>> /\ exitCode > 0)

\* C2: when the outer loop of next() is over, the new array is what the
\* loop body yields from the input array run over the bodies in any order,
\* and every body's new value is what the loop body yields for that body
\* alone from a fresh copy of the input.
C2_SnapshotIsolation ==
  pc = "free" =>
    /\ \A p \in Perms(nplanets) :
         mem[nextplanets].data = BodiesInOrder(snap, CopyAll(snap), p)
    /\ \A k \in 1..nplanets :
         mem[nextplanets].data[k] = BodyStep(snap, CopyAll(snap), k - 1)[k]
C2_Witness == pc = "free" /\ nplanets = 3 /\ calls = 2

\* C3 as claimed: once next() has been called, its input array is still
\* there, live and with the contents it had at the call.
C3_InputLeftToCaller ==
  (calls > 0 /\ pc # "malloc") => (Live(arg) /\ mem[arg].data = snap)
\* C3 as amended: next() never writes its input array while it computes
\* the new one (the input stays live and unchanged up to line 65), and then
\* frees it: when next() returns its input is released, not left to the caller.
C3_InputReadOnlyThenFreed ==
  /\ pc \in {"malloc", "copy", "force", "free"} =>
       (Live(arg) /\ mem[arg].data = snap)
  /\ (pc \in {"return", "loop", "exit"} /\ calls > 0) =>
       (arg \in 1..Len(mem) /\ mem[arg].st = "freed")
  /\ (pc \in {"loop", "exit"} /\ calls > 0) => (planets = nextplanets /\ nextplanets # arg)
C3_Witness == pc = "return" /\ nplanets = 3 /\ calls = 2

\* C5: every state array the program holds has nplanets bodies, and body k's
\* mass is the mass generated for it, which is positive.
C5_MassAndCountKept ==
  /\ (pc \in {"loop", "malloc", "copy", "force", "free"} \/ (pc = "exit" /\ exitCode = 0)) =>
       /\ Len(mem[planets].data) = nplanets
       /\ \A k \in 1..nplanets :
            /\ mem[planets].data[k].mass = init0[k].mass
            /\ FPos(mem[planets].data[k].mass)
  /\ pc \in {"force", "free", "return"} =>
       /\ Len(mem[nextplanets].data) = nplanets
       /\ \A k \in 1..nplanets :
            /\ mem[nextplanets].data[k].mass = init0[k].mass
            /\ FPos(mem[nextplanets].data[k].mass)
C5_Witness == pc = "exit" /\ exitCode = 0 /\ calls = 2 /\ nplanets = 3

\* C10: one block is allocated at start-up and one per timestep; while
\* next() computes, exactly its input and its output are live and the input
\* is freed only when every body has been computed; between timesteps and at
\* the end exactly one block is live, the one main's pointer names; no
\* access ever goes to a block that is not live.
C10_BufferLifecycle ==
  /\ ~badAccess
  /\ pc \in {"start", "init"} => mem = <<>>
  /\ pc \notin {"start", "init"} /\ argvRead # {} /\ (pc = "exit" => exitCode = 0) =>
       Len(mem) = calls + (IF pc = "malloc" THEN 0 ELSE 1)
  /\ (pc \in {"loop", "malloc"} \/ (pc = "exit" /\ exitCode = 0)) =>
       LiveBlocks = {planets}
  /\ pc \in {"copy", "force", "free"} =>
       (LiveBlocks = {arg, nextplanets} /\ arg # nextplanets /\ arg = planets)
  /\ pc = "free" => (i = nplanets /\ mem[nextplanets].data = NextState(snap))
  /\ pc = "return" => LiveBlocks = {nextplanets}
C10_Witness == pc = "loop" /\ step = 2 /\ nplanets = 3


\* The number of steps the program still has to take.
StepCost == nplanets * (nplanets + 1) + 5
BoundCost == MaxN * (MaxN + 1) + 5
Rank ==
  CASE pc = "exit" -> 0
    [] pc = "start" -> 3 + MaxT * BoundCost
    [] pc = "init" -> 2 + timesteps * StepCost
    [] pc = "loop" -> 1 + (timesteps - step) * StepCost
    [] pc = "malloc" -> (timesteps - step) * StepCost
    [] pc = "copy" -> (timesteps - step) * StepCost - 1
    [] pc = "force" -> 3 + (timesteps - step - 1) * StepCost
                         + (nplanets - i) * (nplanets + 1) - j
    [] pc = "free" -> 3 + (timesteps - step - 1) * StepCost
    [] pc = "return" -> 2 + (timesteps - step - 1) * StepCost

C4_Inv ==
  /\ pc = "loop" =>
       /\ calls = step
       /\ step <= timesteps
       /\ Live(planets)
       /\ mem[planets].data = StateAfter(init0, step)
  /\ InCall => (calls = step + 1 /\ calls <= timesteps /\ arg = planets)
  /\ pc = "malloc" => snap = StateAfter(init0, step)
  /\ pc = "return" => mem[nextplanets].data = NextState(snap)
  /\ (pc = "exit" /\ argc = 3) =>
       /\ exitCode = 0
       /\ calls = timesteps
       /\ out = <<FinalLine(StateAfter(init0, timesteps))>>
\* C4: given nplanets >= 1 and timesteps >= 0, next() is called timesteps
\* times, call t + 1 on exactly the array call t returned (the generated
\* state for the first), and the program then ends (every step brings the
\* exit one step nearer), having printed one line with the x and y of body
\* nplanets - 1 of the state after timesteps steps.
C4_DriverRunsTSteps ==
  /\ [](C4_Inv /\ Rank >= 0 /\ (Rank = 0 <=> pc = "exit"))
  /\ [][Rank' < Rank]_vars
C4_Witness ==
  pc = "exit" /\ argc = 3 /\ timesteps = 2 /\ calls = 2 /\ nplanets = 3 /\ Len(out) = 1

\* C6 as claimed: whatever the order in which the unordered pairs are
\* visited, the symmetric-force step returns the array next() returns.
C6_AnyPairOrder ==
  pc = "free" =>
    \A ps \in PairOrders(nplanets) : SymState(snap, ps) = mem[nextplanets].data
\* C6 as amended: invDist3 is the same for (a, b) and (b, a) while dx and dy
\* change sign, and the symmetric-force step that visits the pairs in the
\* order of the loops (a ascending, b ascending above a) returns the array
\* next() returns.
C6_LoopPairOrder ==
  pc = "free" =>
    /\ \A a, b \in 0..(nplanets - 1) :
         LET f == PairLocals(snap, a, b)
             g == PairLocals(snap, b, a)
         IN f.invDist3 = g.invDist3 /\ f.dx = FNeg(g.dx) /\ f.dy = FNeg(g.dy)
    /\ SymState(snap, LoopPairs(nplanets)) = mem[nextplanets].data
C6_Witness ==
  /\ pc = "free" /\ nplanets = 3 /\ calls = 2
  /\ snap[1].mass # snap[3].mass
  /\ mem[nextplanets].data[3].vx # snap[3].vx

TwoBody ==
  << Planet(FInt(1), FInt(-1), Zero, Zero, Zero),
     Planet(FInt(1), FInt(1), Zero, Zero, Zero) >>
\* C7: from two bodies of mass 1 at (-1, 0) and (1, 0) at rest, one call of
\* next() gives the first a positive and the second a negative vx, and
\* leaves both vy and both y at exactly 0.
C7_TwoBodyScenario ==
  (init0 = TwoBody /\ calls = 1 /\ pc \in {"free", "return"}) =>
    LET r == mem[nextplanets].data
    IN /\ FPos(r[1].vx) /\ FLt(r[2].vx, Zero)
       /\ r[1].vy = Zero /\ r[2].vy = Zero
       /\ r[1].y = Zero /\ r[2].y = Zero
C7_Witness == init0 = TwoBody /\ calls = 1 /\ pc = "return" /\ FPos(mem[nextplanets].data[1].vx)

C8_Locals ==
  loc.i >= 0 =>
    /\ FLe(Eps, loc.distSqr)
    /\ FPos(loc.distSqr)
    /\ IsFin(FSqrt(loc.distSqr)) /\ FPos(FSqrt(loc.distSqr))
    /\ IsFin(loc.invDist3)
    /\ (loc.dx = Zero /\ loc.dy = Zero) => loc.distSqr = Eps
C8_SelfPair ==
  (pc = "force" /\ j < nplanets /\ j = i) =>
    mem'[nextplanets].data[i + 1] = mem[nextplanets].data[i + 1]
\* C8: for every pair next() evaluates, distSqr is at least the softening
\* constant, so sqrt(distSqr) is a positive finite divisor and invDist3 is
\* finite, also for j = i and for coincident bodies; and the iteration
\* j = i leaves body i's new velocity as it was.
C8_SofteningNoSingularity == [](C8_Locals) /\ [][C8_SelfPair]_vars
C8_Witness ==
  pc = "force" /\ loc.i >= 0 /\ loc.i # loc.j /\ loc.dx = Zero /\ loc.dy = Zero

\* C9: while body i's velocity is accumulated its position is still the
\* input position; once body i has moved, its velocity is the one
\* accumulated over all j and its position is the input position plus dt
\* times that velocity.
C9_SemiImplicitEuler ==
  pc \in {"force", "free"} =>
    LET new == mem[nextplanets].data
    IN /\ \A k \in 1..nplanets :
            IF k - 1 < i
            THEN /\ new[k].x = FAdd(snap[k].x, FMul(Dt, new[k].vx))
                 /\ new[k].y = FAdd(snap[k].y, FMul(Dt, new[k].vy))
            ELSE /\ new[k].x = snap[k].x
                 /\ new[k].y = snap[k].y
       /\ (i > 0 /\ j = 0) =>
            LET acc == ForceFrom(snap, CopyAll(snap), i - 1, 0)
            IN new[i].vx = acc[i].vx /\ new[i].vy = acc[i].vy
C9_Witness ==
  /\ pc = "force" /\ i = 2 /\ j = 0 /\ nplanets = 3
  /\ mem[nextplanets].data[2].vx # snap[2].vx
  /\ mem[nextplanets].data[2].x # snap[2].x

====
